---- MODULE Spec2Model ----
(***************************************************************************)
(* Model of src/compute.rs of wsts: the pure computations of a weighted    *)
(* threshold Schnorr signature scheme (id, binding, challenge, lambda,     *)
(* intermediate, poly).                                                    *)
(*                                                                         *)
(* The curve library (p256k1) and the hash (sha2) are external.  The       *)
(* scalar field and the group are modelled by the prime field Z_Q and the  *)
(* cyclic group of order Q (a point is the multiple k of the generator),   *)
(* SHA-256 by a hasher that accumulates the bytes it is fed.  The ids the  *)
(* model draws are 0..MaxId and u32::MAX, with MaxId + 1 < Q, so that      *)
(* Scalar::from is injective on every value the model passes to it, as it  *)
(* is in the real field (whose order exceeds 2^32).                        *)
(*                                                                         *)
(* The module keeps no state between calls, so a behaviour is one call:    *)
(* a state is the call made (op, args), what it returned (ret), the call   *)
(* it made to the external multi-scalar multiplication (multimult_call)    *)
(* and the build profile (overflow_checks).                                *)
(***************************************************************************)
EXTENDS Integers, Sequences, FiniteSets, TLC

VARIABLES overflow_checks, op, args, ret, multimult_call

vars == <<overflow_checks, op, args, ret, multimult_call>>

(* ------------------------------ bounds --------------------------------- *)
MaxId == 3
MaxKeys == 3
MaxParties == 2
MaxNonces == 2
MaxCoeffs == 3

(* ------------------------- outcomes of a call -------------------------- *)
Ok(v) == [tag |-> "Ok", val |-> v]
Panic == [tag |-> "Panic", val |-> "attempt to add with overflow"]
DivByZero == [tag |-> "DivByZero", val |-> "division by the additive identity"]
Err(e) == [tag |-> "Err", val |-> e]
NoCall == [tag |-> "None", val |-> "none"]

(* ------------------------------ u32 ------------------------------------ *)
(* A u32 is a pair <<high, low>> of 16-bit limbs.                          *)
Limb == 65536
U32(n) == <<0, n>>
U32Max == <<Limb - 1, Limb - 1>>
U32Overflows(i) == i = U32Max
U32WrappingInc(i) ==
  IF i[2] + 1 < Limb THEN <<i[1], i[2] + 1>> ELSE <<(i[1] + 1) % Limb, 0>>

(* --------------------------- scalar field ------------------------------ *)
Q == 7
Scalars == 0 .. (Q - 1)
ScalarOne == 1
ScalarFromU32(u) == ((u[1] % Q) * (Limb % Q) + u[2]) % Q
ScalarMul(a, b) == (a * b) % Q
ScalarSub(a, b) == (a + Q - b) % Q
ScalarInvert(b) == CHOOSE y \in Scalars : (b * y) % Q = 1
ScalarDiv(a, b) == IF b = 0 THEN DivByZero ELSE Ok(ScalarMul(a, ScalarInvert(b)))

(* ------------------------------ group ---------------------------------- *)
Points == 0 .. (Q - 1)
PointZero == 0
PointAdd(P, R) == (P + R) % Q
PointMul(s, P) == (s * P) % Q
PointX(P) == IF P <= Q - P THEN P ELSE Q - P

(* ---------------------------- encodings -------------------------------- *)
ScalarBytes == 32
Zeros(n) == [k \in 1 .. n |-> 0]
(* Scalar::to_bytes: fixed width, big endian.                              *)
ScalarToBytes(s) == Zeros(ScalarBytes - 1) \o <<s>>
(* Point::compress: one byte for the sign of y, then the x coordinate.     *)
PointCompress(P) == <<IF P <= Q - P THEN 2 ELSE 3>> \o ScalarToBytes(PointX(P))

(* ------------------------------ inputs --------------------------------- *)
Ids == {U32(n) : n \in 0 .. MaxId} \cup {U32Max}
PublicNonce(D, E) == [D |-> D, E |-> E]
PartySamples == {U32(0), U32(1), U32Max}
NonceSamples == {PublicNonce(1, 2), PublicNonce(1, 3), PublicNonce(6, 1)}
PointSamples == {0, 1, 2, Q - 1}
MsgSamples == {<<>>, <<116, 101, 115, 116>>}
PointErrors == {"MultiMultFailed", "InvalidPoint"}
SeqsUpTo(S, n) == UNION {[1 .. m -> S] : m \in 0 .. n}

(* ------------------------------- hash ---------------------------------- *)
(* Sha256: the hasher is the sequence of the bytes fed to it so far.       *)
Sha256New == <<>>
Update(hasher, bytes) == hasher \o bytes
(* The compression of bytes[lo .. hi] into the state h, a byte at a time   *)
(* from lo to hi (evaluated by halves, the left half first).               *)
HashStates == 0 .. 250
RECURSIVE Absorb(_, _, _, _)
Absorb(h, bytes, lo, hi) ==
  IF h \notin HashStates \/ lo > hi THEN h
  ELSE IF lo = hi THEN (h * 31 + bytes[lo] + 1) % 251
  ELSE LET mid == (lo + hi) \div 2
       IN  Absorb(Absorb(h, bytes, lo, mid), bytes, mid + 1, hi)
(* finalize: the digest of the bytes the hasher was fed, as a number.      *)
Finalize(hasher) == Absorb(Len(hasher) % 251, hasher, 1, Len(hasher))
(* crate::util::hash_to_scalar: finalize, then reduce into the field.      *)
hash_to_scalar(hasher) == Finalize(hasher) % Q

(* ------------------------------- id ------------------------------------ *)
(* i + 1 on u32: panics when overflow checks are on, wraps otherwise.      *)
id(i) ==
  IF U32Overflows(i) /\ overflow_checks
  THEN Panic
  ELSE Ok(ScalarFromU32(U32WrappingInc(i)))

(* ----------------------------- binding --------------------------------- *)
BindingPrefix == <<87, 83, 84, 83, 47, 98, 105, 110, 100, 105, 110, 103>>
(* Mutant: E is left out of the hash.                                      *)
NonceBytes_D_only(b) == PointCompress(b.D)
NonceBytes(b) == PointCompress(b.D) \o PointCompress(b.E)
RECURSIVE UpdateNonces(_, _, _)
UpdateNonces(hasher, B, k) ==
  IF k > Len(B) THEN hasher
  ELSE UpdateNonces(Update(hasher, NonceBytes(B[k])), B, k + 1)
(* The hasher of binding right before hash_to_scalar.                      *)
BindingHasher(sid, B, msg) ==
  Update(UpdateNonces(Update(Update(Sha256New, BindingPrefix), ScalarToBytes(sid)),
                      B, 1),
         msg)
binding(sid, B, msg) == hash_to_scalar(BindingHasher(sid, B, msg))

(* ---------------------------- challenge -------------------------------- *)
ChallengePrefix ==
  <<66, 73, 80, 48, 51, 52, 48, 47, 99, 104, 97, 108, 108, 101, 110, 103, 101>>
ChallengeHasher(publicKey, R, msg) ==
  LET prefix_hash == ScalarToBytes(Finalize(Update(Sha256New, ChallengePrefix)))
  IN  Update(Update(Update(Update(Update(Sha256New, prefix_hash), prefix_hash),
                           ScalarToBytes(PointX(R))),
                    ScalarToBytes(PointX(publicKey))),
             msg)
challenge(publicKey, R, msg) == hash_to_scalar(ChallengeHasher(publicKey, R, msg))

(* ------------------------------ lambda --------------------------------- *)
(* Mutant: the test i != *j is missing.                                    *)
lambda_step_unguarded(acc, i, i_scalar, j) ==
  LET j_scalar == id(j) IN
  IF j_scalar.tag # "Ok" THEN j_scalar
  ELSE LET q == ScalarDiv(j_scalar.val, ScalarSub(j_scalar.val, i_scalar)) IN
       IF q.tag # "Ok" THEN q ELSE Ok(ScalarMul(acc, q.val))
(* Mutant: lambda = ... in place of lambda *= ...                          *)
lambda_step_assign(acc, i, i_scalar, j) ==
  IF i # j
  THEN LET j_scalar == id(j) IN
       IF j_scalar.tag # "Ok" THEN j_scalar
       ELSE ScalarDiv(j_scalar.val, ScalarSub(j_scalar.val, i_scalar))
  ELSE Ok(acc)
(* One pass of the loop body for j == key_ids[k], acc the value of lambda. *)
lambda_step(acc, i, i_scalar, j) ==
  IF i # j
  THEN LET j_scalar == id(j) IN
       IF j_scalar.tag # "Ok" THEN j_scalar
       ELSE LET q == ScalarDiv(j_scalar.val, ScalarSub(j_scalar.val, i_scalar)) IN
            IF q.tag # "Ok" THEN q ELSE Ok(ScalarMul(acc, q.val))
  ELSE Ok(acc)
RECURSIVE lambda_loop(_, _, _, _, _)
lambda_loop(acc, i, i_scalar, key_ids, k) ==
  IF k > Len(key_ids) THEN Ok(acc)
  ELSE LET next == lambda_step(acc, i, i_scalar, key_ids[k]) IN
       IF next.tag # "Ok" THEN next
       ELSE lambda_loop(next.val, i, i_scalar, key_ids, k + 1)
lambda(i, key_ids) ==
  LET i_scalar == id(i) IN
  IF i_scalar.tag # "Ok" THEN i_scalar
  ELSE lambda_loop(ScalarOne, i, i_scalar.val, key_ids, 1)

(* --------------------------- intermediate ------------------------------ *)
Min(a, b) == IF a <= b THEN a ELSE b
(* Mutant: binding over the zero-based id, Scalar::from(i).                *)
intermediate_rhos_zero_based(msg, party_ids, nonces) ==
  [k \in 1 .. Len(party_ids) |->
     LET sid == id(party_ids[k]) IN
     IF sid.tag # "Ok" THEN sid
     ELSE Ok(binding(ScalarFromU32(party_ids[k]), nonces, msg))]
(* rhos: one binding per party id, each over the whole of nonces.          *)
intermediate_rhos(msg, party_ids, nonces) ==
  [k \in 1 .. Len(party_ids) |->
     LET sid == id(party_ids[k]) IN
     IF sid.tag # "Ok" THEN sid ELSE Ok(binding(sid.val, nonces, msg))]
(* Mutant: the zip starts at the second nonce.                             *)
intermediate_R_vec_skip(nonces, rhos) ==
  [k \in 1 .. Min(Len(nonces) - 1, Len(rhos)) |->
     PointAdd(nonces[k + 1].D, PointMul(rhos[k], nonces[k + 1].E))]
(* zip stops at the shorter of its two sequences.                          *)
intermediate_R_vec(nonces, rhos) ==
  [k \in 1 .. Min(Len(nonces), Len(rhos)) |->
     PointAdd(nonces[k].D, PointMul(rhos[k], nonces[k].E))]
(* Mutant: the fold keeps R_i in place of R + R_i.                         *)
Fold_last(R, R_vec, k) == IF R_vec = <<>> THEN R ELSE R_vec[Len(R_vec)]
RECURSIVE Fold(_, _, _)
Fold(R, R_vec, k) ==
  IF k > Len(R_vec) THEN R ELSE Fold(PointAdd(R, R_vec[k]), R_vec, k + 1)
intermediate(msg, party_ids, nonces) ==
  LET rhos == intermediate_rhos(msg, party_ids, nonces) IN
  IF \E k \in 1 .. Len(rhos) : rhos[k].tag # "Ok" THEN Panic
  ELSE LET R_vec == intermediate_R_vec(nonces, [k \in 1 .. Len(rhos) |-> rhos[k].val])
       IN  Ok([R_vec |-> R_vec, R |-> Fold(PointZero, R_vec, 1)])

(* ------------------------------- poly ---------------------------------- *)
RECURSIVE poly_ladder(_, _, _, _)
poly_ladder(s, pow, x, n) ==
  IF Len(s) >= n THEN s ELSE poly_ladder(Append(s, pow), ScalarMul(pow, x), x, n)
(* Mutant: pow is multiplied by x before it is pushed.                     *)
poly_s_from_x(x, f) == poly_ladder(<<>>, x, x, Len(f))
(* The scalars poly hands to the multi-scalar multiplication.              *)
poly_s(x, f) == poly_ladder(<<>>, ScalarOne, x, Len(f))
RECURSIVE MultiSum(_, _, _)
MultiSum(s, p, k) ==
  IF k > Min(Len(s), Len(p)) THEN PointZero
  ELSE PointAdd(PointMul(s[k], p[k]), MultiSum(s, p, k + 1))
(* Point::multimult: fails with the error the library chose (fault), or    *)
(* returns the sum of the scalar multiples.                                *)
multimult(s, p, fault) ==
  IF fault \in PointErrors THEN Err(fault) ELSE Ok(MultiSum(s, p, 1))
(* Mutant: an error of the multiplication is replaced by the identity.     *)
poly_fallback(x, f, fault) ==
  LET out == multimult(poly_s(x, f), f, fault) IN
  IF out.tag = "Err" THEN Ok(PointZero) ELSE out
poly(x, f, fault) == multimult(poly_s(x, f), f, fault)

(* ----------------------------- the calls ------------------------------- *)
NoMultimult == [s |-> <<>>, p |-> <<>>, out |-> NoCall]

Init ==
  /\ overflow_checks \in BOOLEAN
  /\ op = "none"
  /\ args = <<>>
  /\ ret = NoCall
  /\ multimult_call = NoMultimult

CallId ==
  /\ op = "none"
  /\ \E i \in Ids :
       /\ op' = "id"
       /\ args' = [i |-> i]
       /\ ret' = id(i)
       /\ multimult_call' = NoMultimult
       /\ UNCHANGED overflow_checks

CallBinding ==
  /\ op = "none"
  /\ \E sid \in Scalars, B \in SeqsUpTo(NonceSamples, MaxNonces), msg \in MsgSamples :
       /\ op' = "binding"
       /\ args' = [id |-> sid, B |-> B, msg |-> msg]
       /\ ret' = Ok(binding(sid, B, msg))
       /\ multimult_call' = NoMultimult
       /\ UNCHANGED overflow_checks

CallChallenge ==
  /\ op = "none"
  /\ \E publicKey \in Points, R \in Points, msg \in MsgSamples :
       /\ op' = "challenge"
       /\ args' = [publicKey |-> publicKey, R |-> R, msg |-> msg]
       /\ ret' = Ok(challenge(publicKey, R, msg))
       /\ multimult_call' = NoMultimult
       /\ UNCHANGED overflow_checks

CallLambda ==
  /\ op = "none"
  /\ \E i \in Ids, key_ids \in SeqsUpTo(Ids, MaxKeys) :
       /\ op' = "lambda"
       /\ args' = [i |-> i, key_ids |-> key_ids]
       /\ ret' = lambda(i, key_ids)
       /\ multimult_call' = NoMultimult
       /\ UNCHANGED overflow_checks

CallIntermediate ==
  /\ op = "none"
  /\ \E msg \in MsgSamples, party_ids \in SeqsUpTo(PartySamples, MaxParties),
        nonces \in SeqsUpTo(NonceSamples, MaxNonces) :
       /\ op' = "intermediate"
       /\ args' = [msg |-> msg, party_ids |-> party_ids, nonces |-> nonces]
       /\ ret' = intermediate(msg, party_ids, nonces)
       /\ multimult_call' = NoMultimult
       /\ UNCHANGED overflow_checks

CallPoly ==
  /\ op = "none"
  /\ \E x \in Scalars, f \in SeqsUpTo(PointSamples, MaxCoeffs),
        fault \in PointErrors \cup {"none"} :
       /\ op' = "poly"
       /\ args' = [x |-> x, f |-> f]
       /\ ret' = poly(x, f, fault)
       /\ multimult_call' =
            [s |-> poly_s(x, f), p |-> f, out |-> multimult(poly_s(x, f), f, fault)]
       /\ UNCHANGED overflow_checks

Next ==
  \/ CallId
  \/ CallBinding
  \/ CallChallenge
  \/ CallLambda
  \/ CallIntermediate
  \/ CallPoly

Spec == Init /\ [][Next]_vars

(* ===================== helpers of the properties ======================= *)
Returned == ret.tag = "Ok"
SameOutcome(a, b) == a.tag = b.tag /\ (a.tag = "Ok" => a.val = b.val)
Distinct(seq) == \A a, b \in 1 .. Len(seq) : a # b => seq[a] # seq[b]
Perms(n) == {p \in [1 .. n -> 1 .. n] : \A a, b \in 1 .. n : a # b => p[a] # p[b]}
Permute(seq, p) == [k \in 1 .. Len(seq) |-> seq[p[k]]]
Without(seq, i) == SelectSeq(seq, LAMBDA j : j # i)
RECURSIVE ScalarSum(_)
ScalarSum(terms) ==
  IF terms = <<>> THEN 0 ELSE (Head(terms) + ScalarSum(Tail(terms))) % Q
RECURSIVE Pow(_, _)
Pow(x, n) == IF n = 0 THEN 1 ELSE (x * Pow(x, n - 1)) % Q
(* The value at x of the polynomial with coefficients f[1] (constant), ... *)
Eval(f, x) == ScalarSum([k \in 1 .. Len(f) |-> (f[k] * Pow(x, k - 1)) % Q])
(* The field element n + 1 of the u32 n, computed without wrapping.        *)
FieldSucc(i) == ((i[1] % Q) * (Limb % Q) + i[2] + 1) % Q
(* The q with q * (id(j) - id(i)) = id(j), for j # i.                      *)
Factor(i, j) ==
  CHOOSE q \in Scalars : (q * (id(j).val + Q - id(i).val)) % Q = id(j).val
RECURSIVE Product(_, _)
Product(i, key_ids) ==
  IF key_ids = <<>> THEN 1
  ELSE LET rest == Product(i, Tail(key_ids)) IN
       IF Head(key_ids) = i THEN rest ELSE (Factor(i, Head(key_ids)) * rest) % Q
(* Every id() a call of lambda(i, key_ids) makes returns.                  *)
NoOverflow(i, key_ids) ==
  ~overflow_checks \/ (i # U32Max /\ \A k \in 1 .. Len(key_ids) : key_ids[k] # U32Max)

(* ============================ properties =============================== *)

(* C1: for every polynomial f with t+1 coefficients and every key_ids of   *)
(* t+1 pairwise distinct ids, every lambda(i, key_ids) returns and the sum *)
(* over i in key_ids of lambda(i, key_ids) * f(id(i)) is f(0).             *)
C1_LagrangeReconstruction ==
  (op = "lambda" /\ args.key_ids # <<>> /\ Distinct(args.key_ids)) =>
    LET ks == args.key_ids IN
    /\ \A k \in 1 .. Len(ks) : lambda(ks[k], ks).tag = "Ok"
    /\ \A f \in [1 .. Len(ks) -> Scalars] :
         ScalarSum([k \in 1 .. Len(ks) |->
                      (lambda(ks[k], ks).val * Eval(f, id(ks[k]).val)) % Q]) = f[1]

(* Supports C1: the identity of C1 holds in every call in which no i + 1   *)
(* overflows with the overflow checks on.                                  *)
LagrangeReconstructionWithoutOverflow ==
  (op = "lambda" /\ args.key_ids # <<>> /\ Distinct(args.key_ids)
     /\ NoOverflow(args.i, args.key_ids)) =>
    LET ks == args.key_ids IN
    /\ \A k \in 1 .. Len(ks) : lambda(ks[k], ks).tag = "Ok"
    /\ \A f \in [1 .. Len(ks) -> Scalars] :
         ScalarSum([k \in 1 .. Len(ks) |->
                      (lambda(ks[k], ks).val * Eval(f, id(ks[k]).val)) % Q]) = f[1]

(* C6: id(i) returns, for every u32 i, the field element i + 1, which is   *)
(* not zero.                                                               *)
C6_IdTotalNonzero ==
  op = "id" => /\ ret.tag = "Ok"
               /\ ret.val = FieldSucc(args.i)
               /\ ret.val # 0

RECURSIVE PointSum(_)
PointSum(points) ==
  IF points = <<>> THEN 0 ELSE (PointSum(Tail(points)) + Head(points)) % Q

(* C2 as stated: the R_i sequence a call of intermediate returns is as     *)
(* long as party_ids, whatever the length of nonces.                       *)
C2_LengthIsPartyIds ==
  (op = "intermediate" /\ Returned) => Len(ret.val.R_vec) = Len(args.party_ids)

(* C2 amended: the R_i sequence a call of intermediate returns is as long  *)
(* as the shorter of party_ids and nonces.                                 *)
C2_LengthIsShorter ==
  (op = "intermediate" /\ Returned) =>
    Len(ret.val.R_vec) = IF Len(args.party_ids) <= Len(args.nonces)
                         THEN Len(args.party_ids) ELSE Len(args.nonces)
C2_Witness ==
  /\ op = "intermediate" /\ Returned
  /\ Len(args.nonces) < Len(args.party_ids)
  /\ Len(ret.val.R_vec) = Len(args.nonces)
  /\ Len(args.nonces) > 0

(* C3: the aggregate R a call of intermediate returns is the group sum,    *)
(* from the identity, of the R_i sequence it returns (empty inputs too).   *)
C3_AggregateIsSum ==
  (op = "intermediate" /\ Returned) => ret.val.R = PointSum(ret.val.R_vec)
C3_Witness ==
  /\ op = "intermediate" /\ Returned
  /\ Len(ret.val.R_vec) = 2
  /\ ret.val.R_vec[1] # 0 /\ ret.val.R_vec[2] # 0
  /\ ret.val.R # ret.val.R_vec[2]

(* C4: at each position k of the R_i sequence a call of intermediate       *)
(* returns, R_k = D_k + rho_k * E_k with (D_k, E_k) the k-th nonce and     *)
(* rho_k the binding of id(party_ids[k]) over the whole nonce list and msg.*)
C4_EffectiveCommitment ==
  (op = "intermediate" /\ Returned) =>
    \A k \in 1 .. Len(ret.val.R_vec) :
      /\ k <= Len(args.party_ids) /\ k <= Len(args.nonces)
      /\ LET rho == binding(id(args.party_ids[k]).val, args.nonces, args.msg)
         IN  ret.val.R_vec[k] = (args.nonces[k].D + rho * args.nonces[k].E) % Q
C4_Witness ==
  /\ op = "intermediate" /\ Returned
  /\ Len(ret.val.R_vec) = 2
  /\ args.party_ids[1] # args.party_ids[2]
  /\ args.nonces[1] # args.nonces[2]
  /\ binding(id(args.party_ids[1]).val, args.nonces, args.msg)
       # binding(id(args.party_ids[2]).val, args.nonces, args.msg)

(* C5 as stated: a call of lambda whose key_ids holds a duplicated id      *)
(* divides by zero.                                                        *)
C5_DuplicateDividesByZero ==
  (op = "lambda" /\ ~Distinct(args.key_ids) /\ ret.tag # "Panic") =>
    ret.tag = "DivByZero"

(* C5 amended: no call of lambda divides by zero, duplicated ids or not:   *)
(* a call that returns gives the product of id(j) / (id(j) - id(i)) over   *)
(* the entries j # i of key_ids, a duplicated entry counted once for each  *)
(* occurrence.                                                             *)
C5_NeverDividesByZero ==
  op = "lambda" =>
    /\ ret.tag # "DivByZero"
    /\ Returned <=> NoOverflow(args.i, Without(args.key_ids, args.i))
    /\ Returned => ret.val = Product(args.i, args.key_ids)
C5_Witness ==
  /\ op = "lambda" /\ Returned
  /\ \E a, b \in 1 .. Len(args.key_ids) :
       a # b /\ args.key_ids[a] = args.key_ids[b] /\ args.key_ids[a] # args.i
  /\ \E a \in 1 .. Len(args.key_ids) : args.key_ids[a] = args.i

(* C7: poly(x, f) hands the multi-scalar multiplication as many scalars as *)
(* f has points, the k-th being x^k from x^0, along with f itself; when it *)
(* returns a point, that point is the sum of x^k * f_k, and f_0 when f has *)
(* the single point f_0.                                                   *)
C7_PowerLadder ==
  op = "poly" =>
    LET s == multimult_call.s
        f == args.f
    IN  /\ Len(s) = Len(f)
        /\ multimult_call.p = f
        /\ \A k \in 1 .. Len(s) : s[k] = Pow(args.x, k - 1)
        /\ Returned =>
             ret.val = PointSum([k \in 1 .. Len(f) |-> (Pow(args.x, k - 1) * f[k]) % Q])
        /\ (Returned /\ Len(f) = 1) => ret.val = f[1]
C7_Witness ==
  /\ op = "poly" /\ Returned
  /\ Len(args.f) = 3
  /\ args.x > 1
  /\ args.f[2] # 0 /\ args.f[3] # 0
  /\ multimult_call.s[3] # multimult_call.s[2]

(* C8: poly returns an error exactly when the multi-scalar multiplication  *)
(* returned one, and then that same error; no other function returns an   *)
(* error.                                                                  *)
C8_ErrorPropagation ==
  /\ op = "poly" =>
       /\ ret.tag = "Err" <=> multimult_call.out.tag = "Err"
       /\ ret.tag = "Err" => ret.val = multimult_call.out.val
       /\ ret.tag \in {"Ok", "Err"}
  /\ op \in {"id", "binding", "challenge", "lambda", "intermediate"} =>
       /\ ret.tag # "Err"
       /\ multimult_call.out.tag = "None"
C8_Witness ==
  /\ op = "poly"
  /\ ret = Err("InvalidPoint")
  /\ multimult_call.out = Err("InvalidPoint")
  /\ args.f # <<>>

(* C9 as stated: whenever B has more than one nonce, every reordering of B *)
(* changes the bytes binding(id, B, msg) hashes.                           *)
C9_EveryReorderingChangesInput ==
  (op = "binding" /\ Len(args.B) > 1) =>
    \A p \in Perms(Len(args.B)) :
      (\E k \in 1 .. Len(args.B) : p[k] # k) =>
        BindingHasher(args.id, Permute(args.B, p), args.msg)
          # BindingHasher(args.id, args.B, args.msg)

(* C9 amended: every reordering of B that changes the sequence B changes   *)
(* the bytes binding(id, B, msg) hashes.                                   *)
C9_ChangedSequenceChangesInput ==
  op = "binding" =>
    \A p \in Perms(Len(args.B)) :
      Permute(args.B, p) # args.B =>
        BindingHasher(args.id, Permute(args.B, p), args.msg)
          # BindingHasher(args.id, args.B, args.msg)
C9_Witness ==
  /\ op = "binding" /\ Returned
  /\ Len(args.B) = 2
  /\ args.B[1] # args.B[2]
  /\ args.B[1].D = args.B[2].D

(* C10: lambda(i, key_ids) is the same for every reordering of key_ids,    *)
(* and the same with the entries equal to i taken out of key_ids.          *)
C10_LambdaOrderIndependent ==
  op = "lambda" =>
    /\ \A p \in Perms(Len(args.key_ids)) :
         SameOutcome(lambda(args.i, Permute(args.key_ids, p)), ret)
    /\ SameOutcome(lambda(args.i, Without(args.key_ids, args.i)), ret)
C10_Witness ==
  /\ op = "lambda" /\ Returned
  /\ Len(args.key_ids) = 3
  /\ Distinct(args.key_ids)
  /\ \E a \in 1 .. 3 : args.key_ids[a] = args.i
  /\ ret.val # 1
====
